---- MODULE Spec2Model ----
(***************************************************************************)
(* Model of translation/sharded_dataset.py: the sharded CSV reader         *)
(* (ShardedCSVDataset) and the batch assembler (ShardedBatchedIterator).   *)
(*                                                                         *)
(* Python values are encoded as follows.  None is the empty sequence and   *)
(* a present value x is <<x>> (curr_file, curr_file_name, the module       *)
(* global batch_size, a vocabulary argument).  Python indices are kept     *)
(* 0-based as in the source; a list l indexed at i is l[i + 1] here.       *)
(* A shard path is the position of the file in the directory listing.      *)
(* A string is a sequence of characters.                                   *)
(***************************************************************************)
EXTENDS Integers, Sequences, FiniteSets, TLC

VARIABLES
    fs,        \* the shard directory: fs[p] is the list of csv rows of path p
    d,         \* the ShardedCSVDataset instance (self)
    unreach,   \* open file objects no longer referenced and not yet finalized
    ret,       \* what the last call handed back to its caller
    hist,      \* history: pairs delivered and shards opened since construction/reset
    globals,   \* module-level name batch_size of sharded_dataset.py
    it,        \* the ShardedBatchedIterator instance, None before construction
    it_ret,    \* what the last ShardedBatchedIterator call handed back
    batches,   \* history: the src/trg lists of every batch returned
    prev,      \* history: the pairs delivered between construction/reset and the last reset
    pc,        \* the position of save_shard_vocab, "none" when it is not running
    got        \* history: got[c] is the pairs consumer c received from next(d)

vars == <<fs, d, unreach, ret, hist, globals, it, it_ret, batches, prev, pc, got>>

\* ------------------------------------------------------------------ bounds
MaxShards == 2      \* shard files in the directory (reader specification)
MaxRows == 2        \* rows per shard file
MaxLeak == 1        \* open file objects awaiting finalization at one time
MaxOver == 2        \* next() calls that signal end-of-stream between two resets
MaxBatch == 2       \* largest batch_size handed to ShardedBatchedIterator
MaxSeqLen == 1      \* largest max_sequence_length handed to ShardedBatchedIterator

\* ------------------------------------------------------ Python primitives
None == <<>>

Some(x) == <<x>>

Get(o) == o[1]

Range(s) == {s[i] : i \in 1..Len(s)}

RECURSIVE SumSeq(_)
SumSeq(s) == IF s = <<>> THEN 0 ELSE Head(s) + SumSeq(Tail(s))

IsPrefix(s, t) == Len(s) <= Len(t) /\ s = SubSeq(t, 1, Len(s))

\* The permutations random.shuffle can leave a list of n elements in.
Perms(n) == {p \in [1..n -> 1..n] : \A i, j \in 1..n : p[i] = p[j] => i = j}

Identity(n) == [i \in 1..n |-> i]

\* A sampling with replacement in place of a permutation.
Permute_resample(l, p) == [i \in 1..Len(l) |-> l[p[1]]]

Permute(l, p) == [i \in 1..Len(l) |-> l[p[i]]]

\* ------------------------------------------------------------ shard files
Widths == {1, 2, 3}

\* Field k of line i of the file at path p: a string unique to (p, i, k) for
\* k <= 2; the source field has three characters, the target field two.
Field(p, i, k) == SubSeq(<<p, i, k>>, 1, 4 - k)

MkFile(p, ws) == [i \in 1..Len(ws) |-> [k \in 1..ws[i] |-> Field(p, i, k)]]

FileShapes(maxRows) == UNION {[1..n -> Widths] : n \in 0..maxRows}

BadRows(shape) ==
    SumSeq([p \in 1..Len(shape) |->
        Cardinality({i \in 1..Len(shape[p]) : shape[p][i] # 2})])

\* The directories of at most maxShards files of at most maxRows rows, all
\* rows of two columns except, when bad, at most one.
DirShapes(maxShards, maxRows, bad) ==
    {s \in UNION {[1..n -> FileShapes(maxRows)] : n \in 0..maxShards} :
        BadRows(s) <= (IF bad THEN 1 ELSE 0)}

MkDir(shape) == [p \in 1..Len(shape) |-> MkFile(p, shape[p])]

WellFormed(fsys) ==
    \A p \in 1..Len(fsys) : \A i \in 1..Len(fsys[p]) : Len(fsys[p][i]) = 2

TotalRows(fsys) == SumSeq([p \in 1..Len(fsys) |-> Len(fsys[p])])

\* utils.get_num_lines: the line count of the file at a path.
get_num_lines(fsys, p) == Len(fsys[p])

\* ------------------------------------------------------ ShardedCSVDataset
\* __init__: order is os.listdir order, or its random.shuffle when shuffle.
ShardedCSVDataset_init(fsys, shuffle, order) ==
    [ shuffle        |-> shuffle,
      sharded_files  |-> order,
      file_counts    |-> [p \in Range(order) |-> get_num_lines(fsys, p)],
      curr_file      |-> None,
      curr_file_name |-> None,
      curr_idx       |-> 0,
      curr_data      |-> <<>>,
      shard_idx      |-> -1 ]

ShardedCSVDataset_len(self) ==
    SumSeq([i \in 1..Len(self.sharded_files) |->
        self.file_counts[self.sharded_files[i]]])

\* A reset that clears the buffer but forgets to rewind the shard index.
reset_no_rewind(self) ==
    [self EXCEPT !.curr_file = None,
                 !.curr_file_name = None,
                 !.curr_idx = 0,
                 !.curr_data = <<>>]

\* A reset that also re-orders the shard list.
reset_reorder(self) ==
    [self EXCEPT !.sharded_files = [i \in 1..Len(@) |-> @[Len(@) + 1 - i]],
                 !.curr_file = None,
                 !.curr_file_name = None,
                 !.curr_idx = 0,
                 !.curr_data = <<>>,
                 !.shard_idx = -1]

\* A reset that was forgotten: the reader is left as it is.
reset_forgotten(self) == self

\* reset (lines 69-74).
reset(self) ==
    [self EXCEPT !.curr_file = None,
                 !.curr_file_name = None,
                 !.curr_idx = 0,
                 !.curr_data = <<>>,
                 !.shard_idx = -1]

\* An exception: its type and the shard path / row index it names (a set,
\* empty when the exception carries none).
Exc(type, path, row) == [type |-> type, path |-> path, row |-> row]

NoExc == Exc("none", {}, {})

\* The IndexError of a list subscript: "list index out of range", no context.
IndexError == Exc("IndexError", {}, {})

StopIteration == Exc("StopIteration", {}, {})

\* Lines 77: must a new shard be read?
shard_exhausted(self) ==
    IF self.curr_file = None THEN TRUE
    ELSE self.curr_idx >= self.file_counts[Get(self.curr_file_name)]

\* A hand-out that leaves the row index where it is.
take_row_peek(self, opened) ==
    IF self.curr_idx < Len(self.curr_data)
    THEN [ self   |-> self,
           raised |-> NoExc,
           val    |-> Some(self.curr_data[self.curr_idx + 1]),
           opened |-> opened ]
    ELSE [ self |-> self, raised |-> IndexError, val |-> None, opened |-> opened ]

\* Lines 99-102: hand out curr_data[curr_idx].
take_row(self, opened) ==
    IF self.curr_idx < Len(self.curr_data)
    THEN [ self   |-> [self EXCEPT !.curr_idx = @ + 1],
           raised |-> NoExc,
           val    |-> Some(self.curr_data[self.curr_idx + 1]),
           opened |-> opened ]
    ELSE [ self |-> self, raised |-> IndexError, val |-> None, opened |-> opened ]

\* Lines 93-94: the list comprehension over csv.reader; each row must have
\* row[0] and row[1], further fields are ignored.
csv_rows_ok(rows) == \A i \in 1..Len(rows) : Len(rows[i]) >= 2

csv_pairs(rows) == [i \in 1..Len(rows) |-> <<rows[i][1], rows[i][2]>>]

\* Lines 79-97 after the end-of-dataset test: open and read the next shard.
\* perm is the outcome of random.shuffle(self.curr_data).
read_shard(self, fsys, perm) ==
    LET file_name == self.sharded_files[self.shard_idx + 1]
        opened == [self EXCEPT !.curr_file = Some([name |-> file_name, closed |-> FALSE]),
                               !.curr_file_name = Some(file_name),
                               !.curr_idx = 0]
        rows == fsys[file_name]
        data == csv_pairs(rows)
    IN  IF ~csv_rows_ok(rows)
        THEN [ self |-> opened, raised |-> IndexError, val |-> None,
               opened |-> Some(file_name) ]
        ELSE take_row(
               [opened EXCEPT !.curr_data =
                   IF self.shuffle THEN Permute(data, perm) ELSE data],
               Some(file_name))

\* An advance that steps over a shard.
close_and_skip(self) ==
    [self EXCEPT !.curr_file = IF @ = None THEN None
                               ELSE Some([Get(@) EXCEPT !.closed = TRUE]),
                 !.shard_idx = @ + 2]

\* Lines 79-81: close the file read so far, move on to the next shard.
close_and_advance(self) ==
    [self EXCEPT !.curr_file = IF @ = None THEN None
                               ELSE Some([Get(@) EXCEPT !.closed = TRUE]),
                 !.shard_idx = @ + 1]

\* An end of dataset that rewinds the reader as it signals StopIteration.
stop_and_rewind(self, fsys, perms) ==
    IF self.shard_idx >= Len(self.sharded_files)
    THEN [ self |-> reset(self), raised |-> StopIteration, val |-> None,
           opened |-> None ]
    ELSE read_shard(self, fsys, perms[self.sharded_files[self.shard_idx + 1]])

\* Lines 83-97, self being the reader after lines 79-81.
stop_or_read(self, fsys, perms) ==
    IF self.shard_idx >= Len(self.sharded_files)
    THEN [ self |-> self, raised |-> StopIteration, val |-> None, opened |-> None ]
    ELSE read_shard(self, fsys, perms[self.sharded_files[self.shard_idx + 1]])

\* __next__ (lines 76-102).  perms[p] is what random.shuffle would do to the
\* rows of path p if p is read during this call.
ShardedCSVDataset_next(self, fsys, perms) ==
    IF shard_exhausted(self)
    THEN stop_or_read(close_and_advance(self), fsys, perms)
    ELSE take_row(self, None)

\* ------------------------------------------------------------ file handles
\* Is the file object self.curr_file refers to still open?
HoldsOpen(self) == self.curr_file # None /\ ~Get(self.curr_file).closed

OpenHandles == (IF HoldsOpen(d) THEN 1 ELSE 0) + unreach

\* --------------------------------------------------------------- histories
\* What random.shuffle may do during one call: one permutation for each shard
\* path in active (the shards the call may read), as a sequence indexed by
\* path; the other entries are never used.
RECURSIVE ShufflePicks(_, _, _)
ShufflePicks(self, active, n) ==
    IF n = 0 THEN {<<>>}
    ELSE {Append(s, q) :
            s \in ShufflePicks(self, active, n - 1),
            q \in (IF self.shuffle /\ n \in active
                   THEN Perms(self.file_counts[n])
                   ELSE {Identity(self.file_counts[n])})}

\* The shard the next call of next(self) reads, if it reads one.
NextShard(self) ==
    IF shard_exhausted(self) /\ self.shard_idx + 1 < Len(self.sharded_files)
    THEN {self.sharded_files[self.shard_idx + 2]}
    ELSE {}

Hist0(self) ==
    [ delivered |-> <<>>, visited |-> <<>>, was_reset |-> FALSE,
      stops |-> 0, order0 |-> self.sharded_files, counts0 |-> self.file_counts,
      len0 |-> ShardedCSVDataset_len(self) ]

Record(h, r) ==
    [h EXCEPT !.delivered = @ \o r.val,
              !.visited = @ \o r.opened,
              !.stops = IF r.raised = StopIteration THEN @ + 1 ELSE @]

\* ------------------------------------------------------------------ reader
InitDir(shape, shuffles) ==
    \E shuffle \in shuffles :
        \E order \in (IF shuffle THEN Perms(Len(shape)) ELSE {Identity(Len(shape))}) :
            /\ fs = MkDir(shape)
            /\ d = ShardedCSVDataset_init(fs, shuffle, order)
            /\ hist = Hist0(d)
            /\ unreach = 0
            /\ ret = [op |-> "init", raised |-> NoExc, val |-> None, opened |-> None]

Init ==
    /\ \E shape \in DirShapes(MaxShards, MaxRows, TRUE) : InitDir(shape, BOOLEAN)
    /\ globals = None
    /\ it = None
    /\ it_ret = [op |-> "none", raised |-> NoExc, stage |-> "none", count |-> 0,
                 src |-> <<>>, trg |-> <<>>, src_tensor |-> None, trg_tensor |-> None,
                 pulled |-> <<>>]
    /\ batches = <<>>
    /\ prev = <<>>
    /\ pc = "none"
    /\ got = <<<<>>, <<>>>>

\* One call of next(d), whoever the caller is.
NextStep ==
    /\ hist.stops < MaxOver
    /\ \E perms \in ShufflePicks(d, NextShard(d), Len(d.sharded_files)) :
        \E r \in {ShardedCSVDataset_next(d, fs, perms)} :
            /\ d' = r.self
            /\ ret' = [op |-> "next", raised |-> r.raised, val |-> r.val,
                       opened |-> r.opened]
            /\ hist' = Record(hist, r)
    /\ UNCHANGED <<fs, unreach, globals, it, it_ret, batches>>

\* The caller calls next(d).
CallNext == NextStep /\ UNCHANGED <<prev, pc, got>>

\* One call of d.reset().  The file object curr_file referred to is not
\* closed by reset; when it was still open, the runtime either finalizes it
\* at once (reference counting) or leaves it to a later collection.
ResetStep ==
    /\ d' = reset(d)
    /\ \E now \in BOOLEAN :
        /\ ~now => (HoldsOpen(d) /\ unreach < MaxLeak)
        /\ unreach' = IF now THEN unreach ELSE unreach + 1
    /\ ret' = [op |-> "reset", raised |-> NoExc, val |-> None, opened |-> None]
    /\ hist' = [hist EXCEPT !.delivered = <<>>, !.visited = <<>>, !.stops = 0,
                            !.was_reset = TRUE]
    /\ UNCHANGED <<fs, globals, it, it_ret, batches>>

CallReset == ResetStep /\ UNCHANGED <<prev, pc, got>>

\* The garbage collector finalizes (closes) an unreferenced file object.
Finalize ==
    /\ unreach > 0
    /\ unreach' = unreach - 1
    /\ UNCHANGED <<fs, d, ret, hist, globals, it, it_ret, batches, prev, pc, got>>

Next == CallNext \/ CallReset \/ Finalize

Spec == Init /\ [][Next]_vars

\* ------------------------------------------------- ShardedBatchedIterator
\* __init__ (lines 105-117): the arguments are stored, none is examined.
\* self.data is the reader d.
ShardedBatchedIterator_init(batch_size, en_vocab, fr_vocab, max_sequence_length) ==
    [ batch_size          |-> batch_size,
      en_vocab            |-> en_vocab,
      fr_vocab            |-> fr_vocab,
      max_sequence_length |-> max_sequence_length ]

\* The id Vocabulary reserves for the pad token.
pad_id == 0

NameError == Exc("NameError", {}, {})

AttributeError == Exc("AttributeError", {}, {})

\* torch.Tensor(seq).long(): a sequence argument is taken as the DATA of the
\* tensor, so the result is one-dimensional with Len(seq) elements.
torch_Tensor(seq) == [shape |-> <<Len(seq)>>, data |-> seq]

\* Lines 135-142.  With count >= 1 the first pass of the for loop evaluates
\* [self.en_vocab.word2idx(word) for word in src[0]] (an AttributeError when
\* en_vocab is None and src[0] has a character) and then assigns it to the
\* slice src_tensor[0][:len(src[0])] of a 0-dimensional tensor (an IndexError).
fill_tensors(self, count, src, trg) ==
    LET src_tensor == torch_Tensor(<<count, self.max_sequence_length>>)
        trg_tensor == torch_Tensor(<<count, self.max_sequence_length>>)
    IN  IF count = 0
        THEN [raised |-> NoExc, src_tensor |-> Some(src_tensor),
              trg_tensor |-> Some(trg_tensor)]
        ELSE IF self.en_vocab = None /\ Len(src[1]) > 0
        THEN [raised |-> AttributeError, src_tensor |-> None, trg_tensor |-> None]
        ELSE [raised |-> IndexError, src_tensor |-> None, trg_tensor |-> None]

\* The locals of __next__ after a call r of next(self.data), and as history
\* the pairs the reader handed out (pulled) and the shards it opened.
after_pull(st, r) ==
    [st EXCEPT !.data = r.self,
               !.raised = r.raised,
               !.curr = r.val,
               !.pulled = @ \o r.val,
               !.opened = @ \o r.opened,
               !.last = r]

\* Lines 129-132: one pass of the loop body, r being the outcome of
\* next(self.data) at line 131.
loop_body(st, r) ==
    after_pull([st EXCEPT !.src = Append(@, Get(st.curr)[1]),
                          !.trg = Append(@, Get(st.curr)[2]),
                          !.count = IF r.raised = NoExc THEN @ + 1 ELSE @],
               r)

\* Lines 128-132: the while loop.  Its bound is the module-level name
\* batch_size (g), not self.batch_size.  st.curr is never None here.
RECURSIVE pull_loop(_, _, _, _)
pull_loop(g, fsys, perms, st) ==
    IF st.raised # NoExc THEN st
    ELSE IF g = None THEN [st EXCEPT !.raised = NameError]
    ELSE IF ~(st.count < Get(g)) THEN st
    ELSE pull_loop(g, fsys, perms,
            loop_body(st, ShardedCSVDataset_next(st.data, fsys, perms)))

\* Lines 134-142 when the loop ended without an exception.
finish_batch(self, st) ==
    IF st.raised # NoExc THEN st
    ELSE fill_tensors(self, st.count, st.src, st.trg) @@ [st EXCEPT !.stage = "fill"]

\* Lines 119-142, r being the outcome of next(self.data, None) at line 121.
batch_from(self, g, fsys, perms, st) ==
    IF st.raised # NoExc
    THEN st         \* StopIteration: curr is None, line 124 raises StopIteration
    ELSE finish_batch(self, pull_loop(g, fsys, perms, st))

Locals0(data) ==
    [ data |-> data, raised |-> NoExc, curr |-> None, count |-> 0,
      src |-> <<>>, trg |-> <<>>, stage |-> "pull", src_tensor |-> None,
      trg_tensor |-> None, pulled |-> <<>>, opened |-> <<>>,
      last |-> [self |-> data, raised |-> NoExc, val |-> None, opened |-> None] ]

\* __next__ (lines 119-142).
ShardedBatchedIterator_next(self, data, g, fsys, perms) ==
    batch_from(self, g, fsys, perms,
               after_pull(Locals0(data), ShardedCSVDataset_next(data, fsys, perms)))

\* ----------------------------------------------------------------- batches
\* The three-shard directory with row counts [2, 3, 1].
Scenario231 == <<<<2, 2>>, <<2, 2, 2>>, <<2>>>>

\* A vocabulary argument: missing (None), empty, or holding some characters.
Vocabularies == {None, Some({}), Some({1, 2})}

\* The shards a batch call may read: every shard not yet behind the cursor.
RestShards(self) ==
    {self.sharded_files[i] : i \in (self.shard_idx + 2)..Len(self.sharded_files)}

InitBatch ==
    /\ \/ \E shape \in DirShapes(MaxShards, MaxRows, TRUE) : InitDir(shape, BOOLEAN)
       \/ InitDir(Scenario231, {FALSE})
    /\ globals \in {None} \cup {Some(g) : g \in 0..(MaxBatch + 1)}
    /\ it = None
    /\ it_ret = [op |-> "none", raised |-> NoExc, stage |-> "none", count |-> 0,
                 src |-> <<>>, trg |-> <<>>, src_tensor |-> None, trg_tensor |-> None,
                 pulled |-> <<>>]
    /\ batches = <<>>
    /\ prev = <<>>
    /\ pc = "none"
    /\ got = <<<<>>, <<>>>>

\* The caller constructs ShardedBatchedIterator(batch_size, d, en_vocab,
\* fr_vocab, max_sequence_length).
ItConstruct ==
    /\ it = None
    /\ \E batch_size \in 0..MaxBatch, max_sequence_length \in 0..MaxSeqLen,
          en_vocab \in Vocabularies, fr_vocab \in Vocabularies :
        it' = Some(ShardedBatchedIterator_init(batch_size, en_vocab, fr_vocab,
                                               max_sequence_length))
    /\ it_ret' = [it_ret EXCEPT !.op = "init"]
    /\ UNCHANGED <<fs, d, unreach, ret, hist, globals, batches, prev, pc, got>>

\* The caller calls next(it).
ItNext ==
    /\ it # None
    /\ hist.stops < MaxOver
    /\ \E perms \in ShufflePicks(d, RestShards(d), Len(d.sharded_files)) :
        \E r \in {ShardedBatchedIterator_next(Get(it), d, globals, fs, perms)} :
            /\ d' = r.data
            /\ it_ret' = [op |-> "next", raised |-> r.raised, stage |-> r.stage,
                          count |-> r.count, src |-> r.src, trg |-> r.trg,
                          src_tensor |-> r.src_tensor, trg_tensor |-> r.trg_tensor,
                          pulled |-> r.pulled]
            /\ hist' = [hist EXCEPT !.delivered = @ \o r.pulled,
                                    !.visited = @ \o r.opened,
                                    !.stops = IF r.last.raised = StopIteration
                                              THEN @ + 1 ELSE @]
            /\ ret' = [op |-> "next", raised |-> r.last.raised, val |-> r.last.val,
                       opened |-> r.last.opened]
            /\ batches' = IF r.raised = NoExc
                          THEN Append(batches, [src |-> r.src, trg |-> r.trg])
                          ELSE batches
    /\ UNCHANGED <<fs, unreach, globals, it, prev, pc, got>>

NextBatch == ItConstruct \/ ItNext

SpecBatch == InitBatch /\ [][NextBatch]_vars

\* ------------------------------------------------- drains of a shuffled reader
\* A reader constructed with shuffle=True over well-formed shards, drained and
\* reset any number of times; prev keeps what was delivered before the reset.
\* The directories hold at most MaxPairs rows in all.
MaxPairs == MaxShards + MaxRows - 1

RowsOfShape(shape) == SumSeq([p \in 1..Len(shape) |-> Len(shape[p])])

InitShuffle ==
    /\ \E shape \in {s \in DirShapes(MaxShards, MaxRows, FALSE) :
                        RowsOfShape(s) <= MaxPairs} :
          InitDir(shape, {TRUE})
    /\ globals = None
    /\ it = None
    /\ it_ret = [op |-> "none", raised |-> NoExc, stage |-> "none", count |-> 0,
                 src |-> <<>>, trg |-> <<>>, src_tensor |-> None, trg_tensor |-> None,
                 pulled |-> <<>>]
    /\ batches = <<>>
    /\ prev = <<>>
    /\ pc = "none"
    /\ got = <<<<>>, <<>>>>

\* The caller calls d.reset() and remembers what it had received.
ResetAfterDrain ==
    /\ ResetStep
    /\ prev' = hist.delivered
    /\ UNCHANGED <<pc, got>>

NextShuffle == CallNext \/ ResetAfterDrain \/ Finalize

SpecShuffle == InitShuffle /\ [][NextShuffle]_vars

\* -------------------------------------------------------- save_shard_vocab
\* save_shard_vocab (lines 144-172): d = ShardedCSVDataset(dir), a first
\* build_vocab over d, d.reset(), a second build_vocab over d, save_vocab.
\* build_vocab makes one pass over the reader it is given: it calls next()
\* until StopIteration; any other exception leaves save_shard_vocab.
\* pc is "en_vocab" during the call of lines 157-161, "reset" before line 163,
\* "fr_vocab" during the call of lines 165-169, "save" at lines 171-172 and
\* "raised" once an exception has propagated.
after_build_vocab(pos, raised) ==
    IF raised = NoExc THEN pos
    ELSE IF raised # StopIteration THEN "raised"
    ELSE IF pos = "en_vocab" THEN "reset"
    ELSE "save"

InitVocab ==
    /\ \E shape \in DirShapes(MaxShards, MaxRows, TRUE) : InitDir(shape, {FALSE})
    /\ globals = None
    /\ it = None
    /\ it_ret = [op |-> "none", raised |-> NoExc, stage |-> "none", count |-> 0,
                 src |-> <<>>, trg |-> <<>>, src_tensor |-> None, trg_tensor |-> None,
                 pulled |-> <<>>]
    /\ batches = <<>>
    /\ prev = <<>>
    /\ pc = "en_vocab"
    /\ got = <<<<>>, <<>>>>

\* One step of a build_vocab pass: a call of next(d).
BuildVocabNext ==
    /\ pc \in {"en_vocab", "fr_vocab"}
    /\ NextStep
    /\ pc' = after_build_vocab(pc, ret'.raised)
    /\ UNCHANGED <<prev, got>>

\* Line 163: d.reset() between the two passes; prev keeps what the first
\* pass was given.
VocabReset ==
    /\ pc = "reset"
    /\ ResetStep
    /\ prev' = hist.delivered
    /\ pc' = "fr_vocab"
    /\ UNCHANGED got

NextVocab == BuildVocabNext \/ VocabReset

SpecVocab == InitVocab /\ [][NextVocab]_vars

\* ------------------------------------------- two consumers of one reader
\* Two logical consumers hold the same ShardedCSVDataset instance and call
\* next() on it in any interleaving, never reset(); got[c] is what consumer c
\* was handed.  The directories of a shuffled reader hold at most MaxPairs rows.
Consumers == {1, 2}

InitShared ==
    /\ \/ \E shape \in DirShapes(MaxShards, MaxRows, TRUE) : InitDir(shape, {FALSE})
       \/ \E shape \in {s \in DirShapes(MaxShards, MaxRows, TRUE) :
                           RowsOfShape(s) <= MaxPairs} :
             InitDir(shape, {TRUE})
    /\ globals = None
    /\ it = None
    /\ it_ret = [op |-> "none", raised |-> NoExc, stage |-> "none", count |-> 0,
                 src |-> <<>>, trg |-> <<>>, src_tensor |-> None, trg_tensor |-> None,
                 pulled |-> <<>>]
    /\ batches = <<>>
    /\ prev = <<>>
    /\ pc = "none"
    /\ got = <<<<>>, <<>>>>

\* Consumer c calls next(d).
Pull(c) ==
    /\ NextStep
    /\ got' = [got EXCEPT ![c] = @ \o ret'.val]
    /\ UNCHANGED <<prev, pc>>

NextShared == \E c \in Consumers : Pull(c)

SpecShared == InitShared /\ [][NextShared]_vars

\* ================================================================== claims
\* Claims about the reader are checked under Spec, claims about the batch
\* assembler under SpecBatch.

Min(a, b) == IF a <= b THEN a ELSE b

\* C1: for a directory of well-formed shards with row counts c1..cN, on a
\* freshly constructed reader length() is the sum of the ci, exactly that many
\* next() calls return a pair before StopIteration, and no call fails otherwise.
C1_LengthAndDrain ==
    (~hist.was_reset /\ WellFormed(fs)) =>
        /\ ShardedCSVDataset_len(d) = TotalRows(fs)
        /\ ret.raised \in {NoExc, StopIteration}
        /\ Len(hist.delivered) <= TotalRows(fs)
        /\ (ret.raised = StopIteration => Len(hist.delivered) = TotalRows(fs))

\* The pairs a caller receives when it keeps calling next() on the reader self
\* until StopIteration (at most fuel calls).
RECURSIVE Drain(_, _, _)
Drain(self, acc, fuel) ==
    IF fuel = 0 THEN acc
    ELSE LET r == ShardedCSVDataset_next(self, fs,
                     [p \in 1..Len(fs) |-> Identity(Len(fs[p]))])
         IN  IF r.raised = StopIteration THEN acc
             ELSE Drain(r.self, acc \o r.val, fuel - 1)

\* The first full drain of a fresh non-shuffled reader over the directory.
FirstDrain ==
    Drain(ShardedCSVDataset_init(fs, FALSE, hist.order0), <<>>,
          TotalRows(fs) + Len(fs) + 1)

\* C4: on a non-shuffled reader, reset() at any point followed by a drain to
\* end-of-stream yields the pair sequence of the first drain of a fresh reader.
C4_ResetReplays ==
    (~d.shuffle /\ hist.was_reset /\ ret.op = "next" /\ ret.raised = StopIteration)
        => hist.delivered = FirstDrain

\* C4 witness: a non-shuffled reader over two shards was reset and then
\* drained to end-of-stream, delivering three or more pairs.
C4_Witness ==
    /\ ~d.shuffle /\ hist.was_reset /\ ret.op = "next" /\ ret.raised = StopIteration
    /\ WellFormed(fs) /\ Len(fs) >= 2 /\ Len(hist.delivered) >= 3

\* C5: next() and reset() never change the shard list or the line counts, so
\* length() is constant and every drain visits the shards in the order fixed
\* at construction.
C5_ManifestFrozen ==
    /\ d.sharded_files = hist.order0
    /\ d.file_counts = hist.counts0
    /\ ShardedCSVDataset_len(d) = hist.len0
    /\ (ret.raised = StopIteration => hist.visited = hist.order0)

\* C5 witness: a shuffled reader whose order differs from the listing order
\* has completed a drain after a reset.
C5_Witness ==
    /\ d.shuffle /\ hist.was_reset /\ ret.raised = StopIteration
    /\ Len(hist.order0) >= 2 /\ hist.order0 # Identity(Len(hist.order0))
    /\ hist.visited = hist.order0

\* Every shard of the directory has at least one row.
NoEmptyShard(fsys) == \A p \in 1..Len(fsys) : Len(fsys[p]) >= 1

\* C6: at most one shard file handle is open at any time (stated for the
\* directories of well-formed shards without an empty shard, on which no
\* next() fails).
C6_AtMostOneOpen == (WellFormed(fs) /\ NoEmptyShard(fs)) => OpenHandles <= 1

\* C7: whenever next() hands control back, by a pair, by end-of-stream or by
\* an error, the reader holds no open handle (stated for the directories
\* without an empty shard).
C7_NoHandleHeld == (NoEmptyShard(fs) /\ ret.op = "next") => ~HoldsOpen(d)

\* The first row of a file whose column count is not two, if there is one.
BadRowsOf(rows) == {i \in 1..Len(rows) : Len(rows[i]) # 2}

\* C8: the next() that reads a shard with a row of other than two columns
\* fails with an error naming the shard path and the row index, and no pair
\* is ever built from such a row.
C8_MalformedRowFails ==
    ret.op = "next" =>
        /\ ret.val # None =>
              \E p \in 1..Len(fs) : \E i \in 1..Len(fs[p]) :
                  /\ Len(fs[p][i]) = 2
                  /\ Get(ret.val) = <<fs[p][i][1], fs[p][i][2]>>
        /\ (ret.opened # None /\ BadRowsOf(fs[Get(ret.opened)]) # {}) =>
              /\ ret.raised.path = {Get(ret.opened)}
              /\ ret.raised.row # {}
              /\ ret.raised.row \subseteq BadRowsOf(fs[Get(ret.opened)])

\* The configuration the assembler is meant to accept.
ValidConfig(self) ==
    /\ self.batch_size >= 1
    /\ self.max_sequence_length >= 1
    /\ self.en_vocab \notin {None, Some({})}
    /\ self.fr_vocab \notin {None, Some({})}

\* C9: an iterator with a non-positive batch size, a non-positive maximum
\* sequence length or a missing or empty vocabulary cannot be constructed.
C9_FailFast == it # None => ValidConfig(Get(it))

\* The batch sizes a stream of length L gives with batch size B >= 1.
ExpectedSizes(L, B) ==
    [k \in 1..((L + B - 1) \div B) |->
        IF k * B <= L THEN B ELSE L - (k - 1) * B]

BatchSizes == [k \in 1..Len(batches) |-> Len(batches[k].src)]

\* C2: with batch size B >= 1 over well-formed, non-empty shards holding L
\* rows, calling __next__ until end-of-stream gives ceil(L/B) batches, all of
\* B rows except that the last has L mod B rows when that is not 0 (stated
\* for a valid configuration and no outside batch_size other than B).
C2_BatchCount ==
    (/\ it # None /\ it_ret.op = "next"
     /\ WellFormed(fs) /\ NoEmptyShard(fs)
     /\ ValidConfig(Get(it))
     /\ globals \in {None, Some(Get(it).batch_size)}) =>
        LET expected == ExpectedSizes(ShardedCSVDataset_len(d), Get(it).batch_size)
        IN  /\ it_ret.raised \in {NoExc, StopIteration}
            /\ Len(batches) <= Len(expected)
            /\ BatchSizes = SubSeq(expected, 1, Len(batches))
            /\ (it_ret.raised = StopIteration => Len(batches) = Len(expected))

\* C3: every batch __next__ returns has 1..self.batch_size rows, whatever the
\* value of a name batch_size outside the instance, and also when there is
\* none (stated for a valid configuration).
C3_BatchWithinConfigured ==
    (it # None /\ it_ret.op = "next" /\ ValidConfig(Get(it))) =>
        /\ it_ret.raised # NameError
        /\ (it_ret.raised = NoExc => it_ret.count \in 1..Get(it).batch_size)

\* Row i of a two-dimensional tensor.
TensorRow(t, i) == SubSeq(t.data, (i - 1) * t.shape[2] + 1, i * t.shape[2])

\* The length of the longest prefix of row that holds no pad id.
RECURSIVE NonPadPrefix(_)
NonPadPrefix(row) ==
    IF row = <<>> \/ Head(row) = pad_id THEN 0 ELSE 1 + NonPadPrefix(Tail(row))

PaddedMatrix(t, count, strings, max_sequence_length) ==
    /\ t # None
    /\ Get(t).shape = <<count, max_sequence_length>>
    /\ \A i \in 1..count :
          NonPadPrefix(TensorRow(Get(t), i)) = Min(Len(strings[i]), max_sequence_length)

\* C10: once the rows of a batch are pulled, __next__ returns without error two
\* matrices of shape (row count x max_sequence_length) whose rows hold the
\* ids left-aligned, truncated to max_sequence_length, the rest pad (stated
\* for a valid configuration and an outside batch_size equal to the
\* configured one, so that the loop gathers 1..batch_size rows).
C10_PaddedMatrices ==
    (/\ it # None /\ it_ret.op = "next" /\ it_ret.stage = "fill"
     /\ ValidConfig(Get(it))
     /\ globals = Some(Get(it).batch_size)) =>
        /\ it_ret.raised = NoExc
        /\ PaddedMatrix(it_ret.src_tensor, it_ret.count, it_ret.src,
                        Get(it).max_sequence_length)
        /\ PaddedMatrix(it_ret.trg_tensor, it_ret.count, it_ret.trg,
                        Get(it).max_sequence_length)

\* The rows of a batch: the pairs a src list and a trg list stand for.
Rows(src, trg) == [i \in 1..Len(src) |-> <<src[i], trg[i]>>]

\* C11: no pair __next__ pulls from the reader is discarded: the rows gathered
\* for a batch are exactly the pairs the call pulled, in order (stated for the
\* calls whose loop ended normally, a valid configuration, an outside
\* batch_size equal to the configured one and shards on which no next() fails).
C11_NoPairDiscarded ==
    (/\ it # None /\ it_ret.op = "next" /\ it_ret.stage = "fill"
     /\ WellFormed(fs) /\ NoEmptyShard(fs)
     /\ ValidConfig(Get(it))
     /\ globals = Some(Get(it).batch_size)) =>
        it_ret.pulled = Rows(it_ret.src, it_ret.trg)

\* C12: after any sequence of next() and reset() calls the shard index is in
\* [-1, number of shards] and the row index in [0, rows materialized].
C12_CursorInRange ==
    /\ d.shard_idx \in -1..Len(d.sharded_files)
    /\ d.curr_idx \in 0..Len(d.curr_data)

\* C13: a next() that fails while reading a shard leaves the cursor sound:
\* the buffer holds rows of the shard curr_file_name names, and every pair a
\* next() returns is a row of that shard.
C13_CursorUncorrupted ==
    d.curr_file_name # None =>
        /\ Range(d.curr_data) \subseteq
               {<<row[1], row[2]>> : row \in
                   {r \in Range(fs[Get(d.curr_file_name)]) : Len(r) >= 2}}
        /\ (ret.op = "next" /\ ret.val # None) =>
               \E i \in 1..Len(fs[Get(d.curr_file_name)]) :
                   /\ Len(fs[Get(d.curr_file_name)][i]) >= 2
                   /\ Get(ret.val) = csv_pairs(fs[Get(d.curr_file_name)])[i]

\* The shard file a delivered pair was read from.
ShardOfPair(pair) == pair[1][1]

ShardsOf(pairs) == [i \in 1..Len(pairs) |-> ShardOfPair(pairs[i])]

NoDuplicate(pairs) == Cardinality(Range(pairs)) = Len(pairs)

C15_StickyEnd ==
    (hist.stops >= 1 /\ ret.op = "next") =>
        (ret.raised = StopIteration /\ ret.val = None)

\* C15 witness: next() was called again after the end of a stream of two
\* shards and signalled StopIteration a second time.
C15_Witness ==
    /\ hist.stops >= 2 /\ ret.op = "next" /\ ret.raised = StopIteration
    /\ Len(fs) >= 2 /\ Len(hist.delivered) >= 2

\* No shard of the directory has a row the reader cannot build a pair from,
\* so that no drain is cut short by a failed read.
Readable(fsys) == \A p \in 1..Len(fsys) : \A i \in 1..Len(fsys[p]) : Len(fsys[p][i]) >= 2

\* The pairs of the shards of order, shard after shard, each in file order.
RECURSIVE FileOrder(_, _)
FileOrder(order, fsys) ==
    IF order = <<>> THEN <<>>
    ELSE [i \in 1..Len(fsys[Head(order)]) |->
             <<fsys[Head(order)][i][1], fsys[Head(order)][i][2]>>]
         \o FileOrder(Tail(order), fsys)

\* The pairs delivered so far that were read from the shard at path p.
DeliveredFrom(p) == {pair \in Range(hist.delivered) : ShardOfPair(pair) = p}

C17_SecondPassSeesAll ==
    /\ pc \in {"fr_vocab", "save"} =>
          /\ IsPrefix(hist.delivered, prev)
          /\ prev = FileOrder(hist.order0, fs)
          /\ ret.raised \in {NoExc, StopIteration}
    /\ pc = "save" => hist.delivered = prev
    /\ pc = "raised" => ~hist.was_reset

\* C17 witness: save_shard_vocab has finished both passes over two shards
\* holding three or more rows.
C17_Witness ==
    /\ pc = "save" /\ Len(fs) >= 2 /\ Len(prev) >= 3 /\ Len(hist.delivered) >= 3

\* Is s what is left of t when some of its elements are taken out?
RECURSIVE IsSubSeq(_, _)
IsSubSeq(s, t) ==
    IF s = <<>> THEN TRUE
    ELSE IF t = <<>> THEN FALSE
    ELSE IF Head(s) = Head(t) THEN IsSubSeq(Tail(s), Tail(t))
    ELSE IsSubSeq(s, Tail(t))

====
